---- MODULE Spec2Model ----
(***************************************************************************)
(* Candle backend of text-embeddings-inference: construction of the        *)
(* backend (CandleBackend::new, FlashBertModel::load) and the batched      *)
(* extraction of pooled / raw embeddings and predictions                   *)
(* (CandleBackend::embed / predict, FlashBertModel::forward / predict).    *)
(*                                                                         *)
(* Request indices, token offsets and map keys are 0-based as in the       *)
(* source; TLA+ sequences are 1-based, so At(s, i) reads s[i + 1].         *)
(***************************************************************************)
EXTENDS Integers, Sequences, FiniteSets, TLC

VARIABLES
    pc,        \* position of the program: "start", "selected", "try_model_type",
               \* "try_roberta", "loaded", "load_failed", "ready", "called", "returned",
               \* "failed", "panicked"
    inputs,    \* arguments and environment of the running CandleBackend::new
    selected,  \* the model variant chosen by the match on the device
    ld,        \* frame of the running FlashBertModel::load
    model,     \* the Box<dyn Model> held by the constructed CandleBackend
    built,     \* the model as new() returned it (history, never written again)
    error,     \* the BackendError returned by a failed construction
    call,      \* the last embed / predict call issued on the backend
    result,    \* what that call returned
    seen       \* the kinds of outcome the calls on this backend had so far (history)

vars == <<pc, inputs, selected, ld, model, built, error, call, result, seen>>

----------------------------------------------------------------------------
(* Bounds of the model.                                                    *)

MaxReq == 3

MaxLen == 2

----------------------------------------------------------------------------
(* Generic helpers.                                                        *)

At(s, i) == s[i + 1]

Range(s) == {s[k] : k \in 1..Len(s)}

Min(a, b) == IF a < b THEN a ELSE b

RECURSIVE SumSeq(_)
SumSeq(s) == IF s = <<>> THEN 0 ELSE Head(s) + SumSeq(Tail(s))

RECURSIVE MaxSeq(_)
MaxSeq(s) == IF s = <<>> THEN 0
             ELSE LET m == MaxSeq(Tail(s)) IN IF Head(s) > m THEN Head(s) ELSE m

RECURSIVE Flatten(_)
Flatten(ss) == IF ss = <<>> THEN <<>> ELSE Head(ss) \o Flatten(Tail(ss))

\* All orderings (sequences without repetition) of the finite set S.
RECURSIVE Perms(_)
Perms(S) == IF S = {} THEN {<<>>}
            ELSE UNION {{<<x>> \o p : p \in Perms(S \ {x})} : x \in S}

None == [some |-> FALSE]

Some(v) == [some |-> TRUE, v |-> v]

Ok(v) == [ok |-> TRUE, v |-> v]

Err(msg) == [ok |-> FALSE, msg |-> msg]

----------------------------------------------------------------------------
(* Strings whose characters matter are sequences of one-character strings. *)

UpperToLower == [c \in {"T", "R", "U", "E", "F", "A", "L", "S"} |->
                    CASE c = "T" -> "t" [] c = "R" -> "r" [] c = "U" -> "u"
                      [] c = "E" -> "e" [] c = "F" -> "f" [] c = "A" -> "a"
                      [] c = "L" -> "l" [] c = "S" -> "s"]

ToLowercase(s) ==
    [k \in 1..Len(s) |-> IF s[k] \in DOMAIN UpperToLower THEN UpperToLower[s[k]] ELSE s[k]]

StrTrue == <<"t", "r", "u", "e">>

StrDefaultTrue == <<"T", "r", "u", "e">>

\* std::env::var("USE_FLASH_ATTENTION"): unset, or set to some string.
EnvUnset == [set |-> FALSE, val |-> <<>>]

EnvSet(s) == [set |-> TRUE, val |-> s]

EnvValues == {EnvUnset,
              EnvSet(<<"T", "r", "u", "e">>),
              EnvSet(<<"T", "R", "U", "E">>),
              EnvSet(<<"t", "r", "u", "e">>),
              EnvSet(<<"F", "a", "l", "s", "e">>),
              EnvSet(<<"0">>),
              EnvSet(<<>>)}

UnwrapOr(v, default) == IF v.set THEN v.val ELSE default

UseFlashAttention(env) == ToLowercase(UnwrapOr(env, StrDefaultTrue)) = StrTrue

----------------------------------------------------------------------------
(* CandleBackend::new: configuration, device, dtype and variant selection. *)

NoInputs == [present |-> FALSE]

NoFrame == [active |-> FALSE]

NoModel == [variant |-> "none"]

NoError == [kind |-> "none"]

NoCall == [op |-> "none"]

NoResult == [kind |-> "none"]

Start(msg) == [kind |-> "Start", msg |-> msg]

Inference(msg) == [kind |-> "Inference", msg |-> msg]

\* text_embeddings_backend_core::ModelType as passed to new().
ModelTypes == {[kind |-> "Classifier"],
               [kind |-> "Embedding", pool |-> "Cls"],
               [kind |-> "Embedding", pool |-> "Mean"]}

\* config.model_type: Option<String>.
ConfigModelTypes == {Some("bert"), Some("roberta"), Some("xlm-roberta"),
                     Some("camembert"), Some("gpt2"), None}

\* Cargo features the crate can be compiled with.
FeatureSets == {{}, {"cuda"}, {"cuda", "flash-attn"}, {"cuda", "flash-attn-v1"}}

NewInputs ==
    [present : {TRUE},
     fault : {"none", "config", "device", "weights"},
     cuda_available : BOOLEAN,
     metal_available : BOOLEAN,
     features : FeatureSets,
     incompatible_compute_cap : BOOLEAN,
     dtype : {"float32", "float16", "bfloat16"},
     position_embedding_type : {"Absolute", "Alibi"},
     use_flash_attention : EnvValues,
     config_model_type : ConfigModelTypes,
     model_type : ModelTypes]

SelectDevice(inp) ==
    IF inp.cuda_available THEN "Cuda"
    ELSE IF inp.metal_available THEN "Metal"
    ELSE "Cpu"

\* {:?} of an Option<String>.
DebugOption(o) == IF o.some THEN o.v ELSE "None"

SupportedModelType(cmt) ==
    ~(/\ cmt # Some("bert")
      /\ cmt # Some("xlm-roberta")
      /\ cmt # Some("camembert")
      /\ cmt # Some("roberta"))

ParseDType(dtype) ==
    IF dtype = "float32" THEN Ok("F32")
    ELSE IF dtype = "float16" THEN Ok("F16")
    ELSE Err(<<"DType", dtype, "is not supported">>)

\* Mutant of SelectVariant: USE_FLASH_ATTENTION is not consulted.
SelectVariantIgnoringOverride(inp, device, dtype) ==
    IF device \in {"Cpu", "Metal"}
    THEN IF inp.position_embedding_type = "Alibi" THEN Ok("JinaBert") ELSE Ok("Bert")
    ELSE IF "cuda" \notin inp.features
    THEN Err(<<"cuda feature is not enabled">>)
    ELSE IF inp.incompatible_compute_cap
    THEN Err(<<"Runtime compute cap is not compatible with compile time compute cap">>)
    ELSE IF /\ inp.features \cap {"flash-attn", "flash-attn-v1"} # {}
            /\ dtype = "F16"
            /\ inp.position_embedding_type = "Absolute"
    THEN Ok("FlashBert")
    ELSE IF /\ "flash-attn" \in inp.features
            /\ dtype = "F16"
            /\ inp.position_embedding_type = "Alibi"
    THEN Ok("FlashJinaBert")
    ELSE IF inp.position_embedding_type = "Alibi"
    THEN Ok("JinaBert")
    ELSE Ok("Bert")

\* The match on the device: which model variant new() goes on to load.
SelectVariant(inp, device, dtype) ==
    IF device \in {"Cpu", "Metal"}
    THEN IF inp.position_embedding_type = "Alibi" THEN Ok("JinaBert") ELSE Ok("Bert")
    ELSE IF "cuda" \notin inp.features
    THEN Err(<<"cuda feature is not enabled">>)
    ELSE IF inp.incompatible_compute_cap
    THEN Err(<<"Runtime compute cap is not compatible with compile time compute cap">>)
    ELSE IF /\ inp.features \cap {"flash-attn", "flash-attn-v1"} # {}
            /\ dtype = "F16"
            /\ inp.position_embedding_type = "Absolute"
            /\ UseFlashAttention(inp.use_flash_attention)
    THEN Ok("FlashBert")
    ELSE IF /\ "flash-attn" \in inp.features
            /\ dtype = "F16"
            /\ inp.position_embedding_type = "Alibi"
            /\ UseFlashAttention(inp.use_flash_attention)
    THEN Ok("FlashJinaBert")
    ELSE IF inp.position_embedding_type = "Alibi"
    THEN Ok("JinaBert")
    ELSE Ok("Bert")

\* new() up to the point where a variant's load is called.
Construct(inp) ==
    IF inp.fault = "config" THEN Err(<<"config.json cannot be read">>)
    ELSE IF inp.fault = "device" THEN Err(<<"device cannot be created">>)
    ELSE IF ~SupportedModelType(inp.config_model_type)
    THEN Err(<<"Model", DebugOption(inp.config_model_type), "is not supported">>)
    ELSE LET dtype == ParseDType(inp.dtype) IN
         IF ~dtype.ok THEN dtype
         ELSE IF inp.fault = "weights" THEN Err(<<"weights cannot be opened">>)
         ELSE SelectVariant(inp, SelectDevice(inp), dtype.v)

New ==
    /\ pc = "start"
    /\ \E inp \in NewInputs :
          LET r == Construct(inp) IN
          IF r.ok
          THEN /\ pc' = "selected"
               /\ inputs' = inp
               /\ selected' = r.v
               /\ error' = error
          ELSE /\ pc' = "failed"
               /\ inputs' = NoInputs
               /\ selected' = selected
               /\ error' = Start(r.msg)
    /\ UNCHANGED <<ld, model, built, call, result, seen>>

----------------------------------------------------------------------------
(* FlashBertModel::load.  A weight name is the sequence of its path        *)
(* components: vb.pp("bert.embeddings") is <<"bert", "embeddings">>.  The  *)
(* checkpoint is the set of weight groups it holds.                        *)

UnwrapOrString(o, default) == IF o.some THEN o.v ELSE default

\* The name prefixes load tries, in the order it tries them.
CandidatePrefixes(cmt) == << <<>>, <<UnwrapOrString(cmt, "bert")>>, <<"roberta">> >>

WeightGroups(cmt) ==
    {p \o <<c>> : p \in Range(CandidatePrefixes(cmt)), c \in {"embeddings", "encoder"}}

Checkpoints(cmt) == SUBSET WeightGroups(cmt)

BertEmbeddingsLoad(ckpt, path, position_embedding_type) ==
    IF position_embedding_type # "Absolute"
    THEN Err(<<"FlashBert only supports absolute position embeddings">>)
    ELSE IF path \in ckpt THEN Ok(path)
    ELSE Err(<<"cannot find tensor">> \o path)

BertEncoderLoad(ckpt, path) ==
    IF path \in ckpt THEN Ok(path) ELSE Err(<<"cannot find tensor">> \o path)

\* The pair (BertEmbeddings::load(..), BertEncoder::load(..)) under one prefix:
\* both loads are evaluated before the pair is matched.
LoadPair(ckpt, prefix, position_embedding_type) ==
    [emb |-> BertEmbeddingsLoad(ckpt, prefix \o <<"embeddings">>, position_embedding_type),
     enc |-> BertEncoderLoad(ckpt, prefix \o <<"encoder">>)]

\* Mutant of PairOk: a candidate is taken as soon as one of the two loads.
PairOkEither(pair) == pair.emb.ok \/ pair.enc.ok

PairOk(pair) == pair.emb.ok /\ pair.enc.ok

\* The pattern (Err(err), _) | (_, Err(err)): the binding of err.
PairErr(pair) == IF ~pair.emb.ok THEN pair.emb ELSE pair.enc

\* Mutant of PoolAndClassifier: a classifier model is given mean pooling.
PoolAndClassifierMeanHead(model_type, cmt, head_ok) ==
    IF model_type.kind = "Classifier"
    THEN IF ~head_ok THEN Err(<<"cannot find tensor", "classifier">>)
         ELSE Ok([pool |-> "Mean",
                  classifier |-> Some(IF cmt = Some("bert")
                                      THEN "BertClassificationHead"
                                      ELSE "RobertaClassificationHead")])
    ELSE Ok([pool |-> model_type.pool, classifier |-> None])

\* match model_type { Classifier => (Cls, Some(head)), Embedding(pool) => (pool, None) }
PoolAndClassifier(model_type, cmt, head_ok) ==
    IF model_type.kind = "Classifier"
    THEN IF ~head_ok THEN Err(<<"cannot find tensor", "classifier">>)
         ELSE Ok([pool |-> "Cls",
                  classifier |-> Some(IF cmt = Some("bert")
                                      THEN "BertClassificationHead"
                                      ELSE "RobertaClassificationHead")])
    ELSE Ok([pool |-> model_type.pool, classifier |-> None])

\* The three bail! checks at the head of load.
LoadChecks(device, dtype, position_embedding_type) ==
    IF device # "Cuda" THEN Err(<<"FlashBert requires Cuda">>)
    ELSE IF dtype # "F16" THEN Err(<<"FlashBert requires DType::F16">>)
    ELSE IF position_embedding_type # "Absolute"
    THEN Err(<<"FlashBert only supports absolute position embeddings">>)
    ELSE Ok(<<>>)

Pending == [state |-> "pending"]

Frame(ckpt, pc_, attempts, err, accepted, res) ==
    [active |-> TRUE, ckpt |-> ckpt, pool |-> pc_.pool, classifier |-> pc_.classifier,
     attempts |-> attempts, err |-> err, accepted |-> accepted, result |-> res]

NoPoolAndClassifier == [pool |-> "none", classifier |-> None]

\* load from its entry up to and including the attempt under the bare name.
FlashLoadBegin ==
    /\ pc = "selected"
    /\ selected = "FlashBert"
    /\ \E ckpt \in Checkpoints(inputs.config_model_type),
          head_ok \in (IF inputs.model_type.kind = "Classifier" THEN BOOLEAN ELSE {TRUE}) :
          LET pos    == inputs.position_embedding_type
              checks == LoadChecks(SelectDevice(inputs), ParseDType(inputs.dtype).v, pos)
              pc_    == PoolAndClassifier(inputs.model_type, inputs.config_model_type, head_ok)
              prefix == CandidatePrefixes(inputs.config_model_type)[1]
              pair   == LoadPair(ckpt, prefix, pos)
          IN  IF ~checks.ok
              THEN /\ pc' = "load_failed"
                   /\ ld' = Frame(ckpt, NoPoolAndClassifier, <<>>, Pending, None, checks)
              ELSE IF ~pc_.ok
              THEN /\ pc' = "load_failed"
                   /\ ld' = Frame(ckpt, NoPoolAndClassifier, <<>>, Pending, None, pc_)
              ELSE IF PairOk(pair)
              THEN /\ pc' = "loaded"
                   /\ ld' = Frame(ckpt, pc_.v, <<prefix>>, Pending, Some(prefix), Ok(prefix))
              ELSE /\ pc' = "try_model_type"
                   /\ ld' = Frame(ckpt, pc_.v, <<prefix>>, PairErr(pair), None, Pending)
    /\ UNCHANGED <<inputs, selected, model, built, error, call, result, seen>>

\* The if let under the "<model_type>." prefix.
FlashTryModelType ==
    /\ pc = "try_model_type"
    /\ LET prefix == CandidatePrefixes(inputs.config_model_type)[2]
           pair   == LoadPair(ld.ckpt, prefix, inputs.position_embedding_type)
       IN  IF PairOk(pair)
           THEN /\ pc' = "loaded"
                /\ ld' = [ld EXCEPT !.attempts = Append(@, prefix),
                                    !.accepted = Some(prefix),
                                    !.result = Ok(prefix)]
           ELSE /\ pc' = "try_roberta"
                /\ ld' = [ld EXCEPT !.attempts = Append(@, prefix)]
    /\ UNCHANGED <<inputs, selected, model, built, error, call, result, seen>>

\* Mutant of FlashTryRoberta: the error returned is the one of the last candidate.
FlashTryRobertaLastError ==
    /\ pc = "try_roberta"
    /\ LET prefix == CandidatePrefixes(inputs.config_model_type)[3]
           pair   == LoadPair(ld.ckpt, prefix, inputs.position_embedding_type)
       IN  IF PairOk(pair)
           THEN /\ pc' = "loaded"
                /\ ld' = [ld EXCEPT !.attempts = Append(@, prefix),
                                    !.accepted = Some(prefix),
                                    !.result = Ok(prefix)]
           ELSE /\ pc' = "load_failed"
                /\ ld' = [ld EXCEPT !.attempts = Append(@, prefix),
                                    !.result = PairErr(pair)]
    /\ UNCHANGED <<inputs, selected, model, built, error, call, result, seen>>

\* The else if let under the "roberta." prefix, and the final return Err(err).
FlashTryRoberta ==
    /\ pc = "try_roberta"
    /\ LET prefix == CandidatePrefixes(inputs.config_model_type)[3]
           pair   == LoadPair(ld.ckpt, prefix, inputs.position_embedding_type)
       IN  IF PairOk(pair)
           THEN /\ pc' = "loaded"
                /\ ld' = [ld EXCEPT !.attempts = Append(@, prefix),
                                    !.accepted = Some(prefix),
                                    !.result = Ok(prefix)]
           ELSE /\ pc' = "load_failed"
                /\ ld' = [ld EXCEPT !.attempts = Append(@, prefix),
                                    !.result = ld.err]
    /\ UNCHANGED <<inputs, selected, model, built, error, call, result, seen>>

\* Ok(Self { embeddings, encoder, pool, classifier, .. }) boxed, then Ok(Self { model }).
NewReturnOk ==
    /\ pc = "loaded"
    /\ pc' = "ready"
    /\ model' = [variant |-> "FlashBert", pool |-> ld.pool, classifier |-> ld.classifier]
    /\ built' = model'
    /\ inputs' = NoInputs
    /\ ld' = NoFrame
    /\ UNCHANGED <<selected, error, call, result, seen>>

\* load(..).s()? : the load error leaves new() as BackendError::Start.
NewReturnErr ==
    /\ pc = "load_failed"
    /\ pc' = "failed"
    /\ error' = Start(ld.result.msg)
    /\ inputs' = NoInputs
    /\ ld' = NoFrame
    /\ UNCHANGED <<selected, model, built, call, result, seen>>

\* BertModel / JinaBertModel / FlashJinaBertModel::load(..).s()? and Ok(Self { model }).
LoadGeneric ==
    /\ pc = "selected"
    /\ selected # "FlashBert"
    /\ \E ok \in BOOLEAN :
          IF ok
          THEN /\ pc' = "ready"
               /\ model' = [variant |-> selected]
               /\ built' = model'
               /\ error' = error
          ELSE /\ pc' = "failed"
               /\ model' = model
               /\ built' = built
               /\ error' = Start(<<"cannot load", selected>>)
    /\ inputs' = NoInputs
    /\ UNCHANGED <<selected, ld, call, result, seen>>

----------------------------------------------------------------------------
(* The Packed Batch handed to embed / predict.                             *)

\* cumulative_seq_lengths of requests with the given lengths: 0, l1, l1 + l2, ...
CumulativeSeqLengths(lens) == [k \in 1..(Len(lens) + 1) |-> SumSeq(SubSeq(lens, 1, k - 1))]

\* position_ids: every request counts its tokens from 0.
PositionIds(lens) == Flatten([r \in 1..Len(lens) |-> [p \in 1..lens[r] |-> p - 1]])

\* A batch of Len(lens) requests.  Every token gets an id of its own, so that
\* each row of the encoder output can be told from every other row.
MakeBatch(lens, pooled_indices, raw_indices, max_length) ==
    [input_ids |-> [j \in 1..SumSeq(lens) |-> j],
     token_type_ids |-> [j \in 1..SumSeq(lens) |-> 0],
     position_ids |-> PositionIds(lens),
     cumulative_seq_lengths |-> CumulativeSeqLengths(lens),
     max_length |-> max_length,
     pooled_indices |-> pooled_indices,
     raw_indices |-> raw_indices]

\* max_length is supplied by the caller of the backend.  forward reads it itself
\* only for a single-request batch; otherwise it is the maximum length.
MaxLengths(lens) == IF Len(lens) = 1 THEN 1..MaxLen ELSE {MaxSeq(lens)}

\* Every batch of 1..MaxReq requests of 1..MaxLen tokens, every split of the
\* requests into pooled and raw ones, and every order of the two index lists.
Batches ==
    UNION {UNION {UNION {
        {MakeBatch(lens, pi, ri, ml) :
            pi \in Perms(P), ri \in Perms((0..(R - 1)) \ P), ml \in MaxLengths(lens)} :
        P \in SUBSET (0..(R - 1))} :
        lens \in [1..R -> 1..MaxLen]} :
        R \in 1..MaxReq}

\* Batch::len()
BatchLen(b) == Len(b.cumulative_seq_lengths) - 1

----------------------------------------------------------------------------
(* Tensors are sequences of rows.  A row is a vector of integers over a    *)
(* common denominator, so that a mean is kept exactly: num / den.          *)

Row(v) == [num |-> v, den |-> 1]

\* Tensor::narrow(0, start, len)
Narrow(t, start, len) == SubSeq(t, start + 1, start + len)

\* Tensor::index_select(indices, 0)
IndexSelect(t, indices) == [k \in 1..Len(indices) |-> t[indices[k] + 1]]

RECURSIVE VecSum(_, _)
VecSum(rows, zero) ==
    IF rows = <<>> THEN zero
    ELSE LET rest == VecSum(Tail(rows), zero)
         IN  [d \in 1..Len(zero) |-> Head(rows).num[d] + rest[d]]

\* Tensor::sum_keepdim(0) of rows with denominator 1: one row, the elementwise sum.
SumKeepdim(t) == <<Row(VecSum(t, [d \in 1..Len(t[1].num) |-> 0]))>>

\* tensor / scalar
DivScalar(t, c) == [k \in 1..Len(t) |-> [num |-> t[k].num, den |-> t[k].den * c]]

\* Tensor::cat(tensors, 0)
Cat(ts) == Flatten(ts)

\* BertEmbeddings::forward followed by BertEncoder::forward: one hidden row per
\* token.  Attention never crosses a request boundary (cu_seqlens), so a row is
\* decided by the request's own tokens; it is kept as the token's id and position.
EncoderForward(b) ==
    [j \in 1..Len(b.input_ids) |-> Row(<<b.input_ids[j], b.position_ids[j]>>)]

----------------------------------------------------------------------------
(* FlashBertModel::forward: pooled and raw extraction.                     *)

\* Pool::Cls
ClsPooling(b, outputs) ==
    LET cls_indices == Narrow(b.cumulative_seq_lengths, 0, BatchLen(b))
    IN  IF b.raw_indices # <<>>
        THEN IndexSelect(outputs, IndexSelect(cls_indices, b.pooled_indices))
        ELSE IndexSelect(outputs, cls_indices)

\* Mutant of MeanOfRequest: the sum is divided by the batch's max_length instead
\* of the request's own length.
MeanOfRequestByMaxLength(b, outputs, i) ==
    LET start == At(b.cumulative_seq_lengths, i)
        len   == At(b.cumulative_seq_lengths, i + 1) - start
    IN  DivScalar(SumKeepdim(Narrow(outputs, start, len)), b.max_length)

\* The closure of the general path: the mean of the rows of request i.
MeanOfRequest(b, outputs, i) ==
    LET start == At(b.cumulative_seq_lengths, i)
        len   == At(b.cumulative_seq_lengths, i + 1) - start
    IN  DivScalar(SumKeepdim(Narrow(outputs, start, len)), len)

\* Pool::Mean
MeanPooling(b, outputs) ==
    IF BatchLen(b) > 1
    THEN Cat([k \in 1..Len(b.pooled_indices) |->
                 MeanOfRequest(b, outputs, b.pooled_indices[k])])
    ELSE DivScalar(SumKeepdim(outputs), b.max_length)

\* final_indices: the token positions of the raw requests, in raw_indices order.
FinalIndices(b) ==
    Flatten([k \in 1..Len(b.raw_indices) |->
                LET i     == b.raw_indices[k]
                    start == At(b.cumulative_seq_lengths, i)
                    end   == At(b.cumulative_seq_lengths, i + 1)
                IN  [j \in 1..(end - start) |-> start + j - 1]])

\* Mutant of RawExtraction: the encoder output is handed back without the gather.
RawExtractionUngathered(b, outputs) == outputs

RawExtraction(b, outputs) ==
    IF BatchLen(b) > 1 /\ b.pooled_indices # <<>>
    THEN IndexSelect(outputs, FinalIndices(b))
    ELSE outputs

\* Mutant of Forward: the pooled tensor is built even without pooled requests.
ForwardAlwaysPooled(pool, b) ==
    LET outputs == EncoderForward(b)
    IN  [pooled |-> Some(IF pool = "Cls" THEN ClsPooling(b, outputs)
                                         ELSE MeanPooling(b, outputs)),
         raw    |-> IF b.raw_indices # <<>> THEN Some(RawExtraction(b, outputs)) ELSE None]

Forward(pool, b) ==
    LET outputs == EncoderForward(b)
    IN  [pooled |-> IF b.pooled_indices # <<>>
                    THEN Some(IF pool = "Cls" THEN ClsPooling(b, outputs)
                                              ELSE MeanPooling(b, outputs))
                    ELSE None,
         raw    |-> IF b.raw_indices # <<>> THEN Some(RawExtraction(b, outputs)) ELSE None]

\* Model::is_padded for FlashBertModel
FlashIsPadded == FALSE

\* Model::is_padded of the generic (padded, masked attention) variants.
GenericIsPadded == TRUE

\* Backend::is_padded
IsPadded(m) == IF m.variant = "FlashBert" THEN FlashIsPadded ELSE GenericIsPadded

----------------------------------------------------------------------------
(* CandleBackend::embed                                                    *)

InputLengths(b) ==
    [i \in 1..BatchLen(b) |-> b.cumulative_seq_lengths[i + 1] - b.cumulative_seq_lengths[i]]

\* HashMap::with_capacity_and_hasher: the empty map.
EmptyMap == <<>>

\* HashMap::insert: a later insert of a key replaces the earlier one.
Insert(map, key, e) == (key :> e) @@ map

\* The map after the inserts of `entries`, in order.
RECURSIVE MapOf(_)
MapOf(entries) ==
    IF entries = <<>> THEN EmptyMap
    ELSE LET last == entries[Len(entries)]
         IN  Insert(MapOf(SubSeq(entries, 1, Len(entries) - 1)), last.key, last.e)

Pooled(e) == [kind |-> "Pooled", v |-> e]

All(e) == [kind |-> "All", v |-> e]

\* Mutant of PooledEntries: the pooled rows are keyed by their position in the
\* pooled tensor instead of by the request index from pooled_indices.
PooledEntriesByPosition(pooled_indices, pooled_embeddings) ==
    [k \in 1..Min(Len(pooled_indices), Len(pooled_embeddings)) |->
        [key |-> k - 1, e |-> Pooled(pooled_embeddings[k])]]

\* for (i, e) in pooled_indices.into_iter().zip(pooled_embeddings)
PooledEntries(pooled_indices, pooled_embeddings) ==
    [k \in 1..Min(Len(pooled_indices), Len(pooled_embeddings)) |->
        [key |-> pooled_indices[k], e |-> Pooled(pooled_embeddings[k])]]

\* for i in raw_indices: slice raw_embeddings at the running offset
\* cumulative_length.  A slice past the end of raw_embeddings panics.
RECURSIVE RawEntries(_, _, _, _)
RawEntries(raw_indices, input_lengths, raw_embeddings, cumulative_length) ==
    IF raw_indices = <<>> THEN [panic |-> FALSE, entries |-> <<>>]
    ELSE LET i      == Head(raw_indices)
             length == At(input_lengths, i)
         IN  IF cumulative_length + length > Len(raw_embeddings)
             THEN [panic |-> TRUE, entries |-> <<>>]
             ELSE LET e    == SubSeq(raw_embeddings, cumulative_length + 1,
                                     cumulative_length + length)
                      rest == RawEntries(Tail(raw_indices), input_lengths,
                                         raw_embeddings, cumulative_length + length)
                  IN  [panic |-> rest.panic,
                       entries |-> <<[key |-> i, e |-> All(e)]>> \o rest.entries]

Panic(msg) == [kind |-> "Panic", msg |-> msg]

BackendEmbed(m, b) ==
    LET fw      == Forward(m.pool, b)
        pooled  == IF fw.pooled.some THEN fw.pooled.v ELSE <<>>
        raw     == IF fw.raw.some THEN fw.raw.v ELSE <<>>
        pe      == PooledEntries(b.pooled_indices, pooled)
        re      == RawEntries(b.raw_indices, InputLengths(b), raw, 0)
        entries == pe \o re.entries
    IN  IF re.panic THEN Panic("range end index out of range")
        ELSE [kind |-> "Ok",
              embeddings |-> MapOf(entries),
              inserted |-> [k \in 1..Len(entries) |-> entries[k].key],
              forward_ran |-> TRUE]

----------------------------------------------------------------------------
(* Model::predict for FlashBertModel and CandleBackend::predict            *)

\* ClassificationHead::forward: one logits row per pooled row.
ClassifierForward(head, pooled) ==
    [k \in 1..Len(pooled) |-> [head |-> head, input |-> pooled[k]]]

\* Mutant of ModelPredict: the forward pass runs before the head is looked for.
ModelPredictForwardFirst(m, b) ==
    LET fw == Forward(m.pool, b)
    IN  IF ~m.classifier.some
        THEN [kind |-> "Err", msg |-> "predict is not implemented for this model",
              forward_ran |-> TRUE]
        ELSE IF ~fw.pooled.some
             THEN Panic("pooled_embeddings is empty. This is a bug.")
             ELSE [kind |-> "Ok", v |-> ClassifierForward(m.classifier.v, fw.pooled.v),
                   forward_ran |-> TRUE]

\* FlashBertModel::predict.  The message is the source's without its backquotes.
ModelPredict(m, b) ==
    IF ~m.classifier.some
    THEN [kind |-> "Err", msg |-> "predict is not implemented for this model",
          forward_ran |-> FALSE]
    ELSE LET fw == Forward(m.pool, b)
         IN  IF ~fw.pooled.some
             THEN Panic("pooled_embeddings is empty. This is a bug.")
             ELSE [kind |-> "Ok", v |-> ClassifierForward(m.classifier.v, fw.pooled.v),
                   forward_ran |-> TRUE]

BackendPredict(m, b) ==
    LET results == ModelPredict(m, b)
    IN  IF results.kind = "Err"
        THEN [kind |-> "Err", error |-> Inference(results.msg),
              forward_ran |-> results.forward_ran]
        ELSE IF results.kind = "Panic" THEN results
        ELSE [kind |-> "Ok",
              predictions |-> MapOf([k \in 1..Len(results.v) |->
                                         [key |-> k - 1, e |-> results.v[k]]]),
              forward_ran |-> results.forward_ran]

\* The caller hands a batch to embed or predict.
Submit ==
    /\ pc = "ready"
    /\ model.variant = "FlashBert"
    /\ \E op \in {"embed", "predict"}, b \in Batches :
          call' = [op |-> op, batch |-> b]
    /\ pc' = "called"
    /\ UNCHANGED <<inputs, selected, ld, model, built, error, result, seen>>

Embed ==
    /\ pc = "called"
    /\ call.op = "embed"
    /\ LET r == BackendEmbed(model, call.batch) IN
          /\ result' = r
          /\ pc' = IF r.kind = "Panic" THEN "panicked" ELSE "returned"
          /\ seen' = seen \cup {r.kind}
    /\ UNCHANGED <<inputs, selected, ld, model, built, error, call>>

\* Mutant of Predict: a failed call leaves the model switched to CLS pooling.
PredictLeavingCls ==
    /\ pc = "called"
    /\ call.op = "predict"
    /\ LET r == BackendPredict(model, call.batch) IN
          /\ result' = r
          /\ pc' = IF r.kind = "Panic" THEN "panicked" ELSE "returned"
          /\ seen' = seen \cup {r.kind}
          /\ model' = IF r.kind = "Err" THEN [model EXCEPT !.pool = "Cls"] ELSE model
    /\ UNCHANGED <<inputs, selected, ld, built, error, call>>

Predict ==
    /\ pc = "called"
    /\ call.op = "predict"
    /\ LET r == BackendPredict(model, call.batch) IN
          /\ result' = r
          /\ pc' = IF r.kind = "Panic" THEN "panicked" ELSE "returned"
          /\ seen' = seen \cup {r.kind}
    /\ UNCHANGED <<inputs, selected, ld, model, built, error, call>>

\* The caller takes the returned map or error; the backend is ready for the next
\* call.  Nothing of the finished call stays behind.
Return ==
    /\ pc = "returned"
    /\ pc' = "ready"
    /\ call' = NoCall
    /\ result' = NoResult
    /\ UNCHANGED <<inputs, selected, ld, model, built, error, seen>>

Init ==
    /\ pc = "start"
    /\ inputs = NoInputs
    /\ selected = "none"
    /\ ld = NoFrame
    /\ model = NoModel
    /\ built = NoModel
    /\ error = NoError
    /\ call = NoCall
    /\ result = NoResult
    /\ seen = {}

Next ==
    \/ New
    \/ FlashLoadBegin
    \/ FlashTryModelType
    \/ FlashTryRoberta
    \/ NewReturnOk
    \/ NewReturnErr
    \/ LoadGeneric
    \/ Submit
    \/ Embed
    \/ Predict
    \/ Return

Spec == Init /\ [][Next]_vars

----------------------------------------------------------------------------
(* What the properties below speak about.                                  *)

Requests(b) == 0..(BatchLen(b) - 1)

StartOf(b, i) == b.cumulative_seq_lengths[i + 1]

LengthOf(b, i) == b.cumulative_seq_lengths[i + 2] - b.cumulative_seq_lengths[i + 1]

NoRepeats(s) == \A k1, k2 \in 1..Len(s) : s[k1] = s[k2] => k1 = k2

\* The invariants of a Packed Batch: the offsets start at 0, never decrease and
\* end at the token count, and every request index is in exactly one of
\* pooled_indices / raw_indices.
PackedBatchInvariant(b) ==
    /\ BatchLen(b) >= 1
    /\ b.cumulative_seq_lengths[1] = 0
    /\ \A i \in Requests(b) : LengthOf(b, i) >= 0
    /\ b.cumulative_seq_lengths[BatchLen(b) + 1] = Len(b.input_ids)
    /\ Range(b.pooled_indices) \cup Range(b.raw_indices) = Requests(b)
    /\ Range(b.pooled_indices) \cap Range(b.raw_indices) = {}
    /\ NoRepeats(b.pooled_indices)
    /\ NoRepeats(b.raw_indices)

\* max_length is the maximum per-request length.
MaxLengthInvariant(b) ==
    /\ \A i \in Requests(b) : LengthOf(b, i) <= b.max_length
    /\ \E i \in Requests(b) : LengthOf(b, i) = b.max_length

\* Row k (0-based) of the encoder output for batch b.
EncoderRow(b, k) == Row(<<b.input_ids[k + 1], b.position_ids[k + 1]>>)

\* The encoder rows of request i, in token order.
OwnRows(b, i) == [k \in 1..LengthOf(b, i) |-> EncoderRow(b, StartOf(b, i) + k - 1)]

EmbedReturnedOk == pc = "returned" /\ call.op = "embed" /\ result.kind = "Ok"

PredictReturnedOk == pc = "returned" /\ call.op = "predict" /\ result.kind = "Ok"

Mixed(b) == BatchLen(b) > 1 /\ b.pooled_indices # <<>> /\ b.raw_indices # <<>>

----------------------------------------------------------------------------
\* C1: a successful embed of a batch in which every request index is in exactly
\* one of pooled_indices / raw_indices returns a map whose keys are exactly the
\* request indices 0..R-1, Pooled for the pooled requests and All for the raw
\* ones, each key inserted once.
C1_OneEntryPerRequest ==
    (EmbedReturnedOk /\ PackedBatchInvariant(call.batch)) =>
        /\ DOMAIN result.embeddings = Requests(call.batch)
        /\ \A i \in Range(call.batch.pooled_indices) : result.embeddings[i].kind = "Pooled"
        /\ \A i \in Range(call.batch.raw_indices) : result.embeddings[i].kind = "All"
        /\ Len(result.inserted) = BatchLen(call.batch)
        /\ NoRepeats(result.inserted)

\* A mixed batch of three requests, under either pooling strategy, was embedded.
C1_Witness ==
    /\ EmbedReturnedOk
    /\ PackedBatchInvariant(call.batch)
    /\ BatchLen(call.batch) = 3
    /\ Mixed(call.batch)
    /\ model.pool = "Mean"

\* C2: with first-token pooling, the pooled vector returned under key i is the
\* encoder row at offset cumulative_seq_lengths[i], for every pooled request i,
\* in whatever order pooled_indices lists the requests.
C2_ClsRowOfOwnStart ==
    (EmbedReturnedOk /\ model.pool = "Cls" /\ PackedBatchInvariant(call.batch)) =>
        \A i \in Range(call.batch.pooled_indices) :
            /\ i \in DOMAIN result.embeddings
            /\ result.embeddings[i] = Pooled(EncoderRow(call.batch, StartOf(call.batch, i)))

\* The part of C2 the code keeps: it holds whenever the batch has a raw request,
\* or lists its pooled requests in batch order.
C2_ClsRowWhenMixedOrInBatchOrder ==
    (/\ EmbedReturnedOk
     /\ model.pool = "Cls"
     /\ PackedBatchInvariant(call.batch)
     /\ \/ call.batch.raw_indices # <<>>
        \/ \A k \in 1..Len(call.batch.pooled_indices) : call.batch.pooled_indices[k] = k - 1) =>
        \A i \in Range(call.batch.pooled_indices) :
            /\ i \in DOMAIN result.embeddings
            /\ result.embeddings[i] = Pooled(EncoderRow(call.batch, StartOf(call.batch, i)))

\* C3: with mean pooling, under the Packed Batch invariants (max_length being
\* the maximum per-request length), the pooled vector returned under key i is
\* the sum of the request's own encoder rows divided by its own length L >= 1,
\* and is the vector the request gets when it is embedded alone.
ColumnSums(rows) ==
    [d \in 1..Len(rows[1].num) |-> SumSeq([k \in 1..Len(rows) |-> rows[k].num[d]])]

\* Request i of batch b as a single-request batch with the same tokens.
Alone(b, i) ==
    [input_ids |-> SubSeq(b.input_ids, StartOf(b, i) + 1, StartOf(b, i) + LengthOf(b, i)),
     token_type_ids |->
         SubSeq(b.token_type_ids, StartOf(b, i) + 1, StartOf(b, i) + LengthOf(b, i)),
     position_ids |->
         SubSeq(b.position_ids, StartOf(b, i) + 1, StartOf(b, i) + LengthOf(b, i)),
     cumulative_seq_lengths |-> <<0, LengthOf(b, i)>>,
     max_length |-> LengthOf(b, i),
     pooled_indices |-> <<0>>,
     raw_indices |-> <<>>]

C3_MeanOfOwnRows ==
    (/\ EmbedReturnedOk
     /\ model.pool = "Mean"
     /\ PackedBatchInvariant(call.batch)
     /\ MaxLengthInvariant(call.batch)) =>
        \A i \in Range(call.batch.pooled_indices) :
            LengthOf(call.batch, i) >= 1 =>
                /\ i \in DOMAIN result.embeddings
                /\ result.embeddings[i] =
                       Pooled([num |-> ColumnSums(OwnRows(call.batch, i)),
                               den |-> LengthOf(call.batch, i)])
                /\ result.embeddings[i] =
                       BackendEmbed(model, Alone(call.batch, i)).embeddings[0]

\* A mean-pooled request shorter than another request of a mixed batch.
C3_Witness ==
    /\ EmbedReturnedOk
    /\ model.pool = "Mean"
    /\ PackedBatchInvariant(call.batch)
    /\ MaxLengthInvariant(call.batch)
    /\ Mixed(call.batch)
    /\ \E i \in Range(call.batch.pooled_indices) :
          /\ LengthOf(call.batch, i) >= 1
          /\ LengthOf(call.batch, i) < call.batch.max_length

\* C4: in a mixed batch, whatever the order of raw_indices, every raw request i
\* gets exactly its own encoder rows cumulative_seq_lengths[i] ..
\* cumulative_seq_lengths[i+1]-1 in token order, the gathered positions number
\* as many as the tokens of the raw requests, and so do the returned rows.
TokensOf(b, indices) == SumSeq([k \in 1..Len(indices) |-> LengthOf(b, indices[k])])

ReturnedRows(indices) ==
    SumSeq([k \in 1..Len(indices) |-> Len(result.embeddings[indices[k]].v)])

RawTokens(b) == Len(b.input_ids) - TokensOf(b, b.pooled_indices)

C4_RawRowsInMixedBatch ==
    (EmbedReturnedOk /\ Mixed(call.batch) /\ PackedBatchInvariant(call.batch)) =>
        /\ \A i \in Range(call.batch.raw_indices) :
              /\ i \in DOMAIN result.embeddings
              /\ result.embeddings[i] = All(OwnRows(call.batch, i))
        /\ Len(FinalIndices(call.batch)) = RawTokens(call.batch)
        /\ ReturnedRows(call.batch.raw_indices) = RawTokens(call.batch)

\* Two raw requests of different lengths listed in descending order, with a
\* pooled request between them.
C4_Witness ==
    /\ EmbedReturnedOk
    /\ PackedBatchInvariant(call.batch)
    /\ call.batch.raw_indices = <<2, 0>>
    /\ call.batch.pooled_indices = <<1>>
    /\ LengthOf(call.batch, 0) # LengthOf(call.batch, 2)

\* C5: on a model with a classification head, a successful predict of a batch
\* with at least one pooled request returns exactly one entry per pooled
\* request, keyed by that request's own index, holding the head's output for
\* the request's first-token row.
C5_PredictKeyedByRequest ==
    (/\ PredictReturnedOk
     /\ model.classifier.some
     /\ PackedBatchInvariant(call.batch)
     /\ call.batch.pooled_indices # <<>>) =>
        /\ DOMAIN result.predictions = Range(call.batch.pooled_indices)
        /\ \A i \in Range(call.batch.pooled_indices) :
              result.predictions[i] =
                  [head |-> model.classifier.v,
                   input |-> EncoderRow(call.batch, StartOf(call.batch, i))]

\* The part of C5 the code keeps: batches without raw requests.
C5_PredictWhenAllPooled ==
    (/\ PredictReturnedOk
     /\ model.classifier.some
     /\ PackedBatchInvariant(call.batch)
     /\ call.batch.raw_indices = <<>>) =>
        /\ DOMAIN result.predictions = Range(call.batch.pooled_indices)
        /\ \A i \in Range(call.batch.pooled_indices) :
              result.predictions[i] =
                  [head |-> model.classifier.v,
                   input |-> EncoderRow(call.batch, StartOf(call.batch, i))]

\* C6: on a model loaded without a classification head, predict fails for every
\* batch with the same "predict is not implemented" error, as
\* BackendError::Inference, without running the forward pass and without
\* returning a prediction.
C6_PredictWithoutHead ==
    (/\ pc \in {"returned", "panicked"}
     /\ call.op = "predict"
     /\ ~model.classifier.some) =>
        /\ pc = "returned"
        /\ result = [kind |-> "Err",
                     error |-> [kind |-> "Inference",
                                msg |-> "predict is not implemented for this model"],
                     forward_ran |-> FALSE]

\* predict was called on a mean-pooling embedding model with a batch that holds
\* pooled requests.
C6_Witness ==
    /\ pc = "returned"
    /\ call.op = "predict"
    /\ ~model.classifier.some
    /\ model.pool = "Mean"
    /\ call.batch.pooled_indices # <<>>
    /\ result.kind = "Err"

\* C7: load tries the prefixes bare name, "<config.model_type>." (or "bert."
\* when the configuration names none), "roberta." in that order; a prefix is
\* accepted only if both its embeddings and its encoder load, the accepted
\* prefix is the last one tried, and a prefix is tried only after every earlier
\* one has failed.
ExpectedPrefixes(cmt) ==
    << <<>>, <<IF cmt = None THEN "bert" ELSE cmt.v>>, <<"roberta">> >>

BothLoad(ckpt, prefix) ==
    /\ (prefix \o <<"embeddings">>) \in ckpt
    /\ (prefix \o <<"encoder">>) \in ckpt

C7_PrefixOrder ==
    /\ CandidatePrefixes(None) = ExpectedPrefixes(None)
    /\ ld.active =>
          /\ Len(ld.attempts) <= 3
          /\ \A k \in 1..Len(ld.attempts) :
                ld.attempts[k] = ExpectedPrefixes(inputs.config_model_type)[k]
          /\ \A k \in 1..(Len(ld.attempts) - 1) : ~BothLoad(ld.ckpt, ld.attempts[k])
          /\ ld.accepted.some =>
                /\ ld.attempts # <<>>
                /\ ld.accepted.v = ld.attempts[Len(ld.attempts)]
                /\ BothLoad(ld.ckpt, ld.accepted.v)
          /\ pc = "loaded" <=> ld.accepted.some
          /\ (ld.attempts # <<>> /\ BothLoad(ld.ckpt, ld.attempts[Len(ld.attempts)])) =>
                ld.accepted.some

\* The third prefix is accepted after the bare name failed with only its
\* embeddings present and the model-type prefix failed as well.
C7_Witness ==
    /\ pc = "loaded"
    /\ Len(ld.attempts) = 3
    /\ ld.attempts[2] # ld.attempts[3]
    /\ <<"embeddings">> \in ld.ckpt
    /\ ld.accepted = Some(<<"roberta">>)

\* The errors the candidate under a prefix produces: one per group that is
\* missing from the checkpoint.
ErrorsOf(ckpt, prefix) ==
    {[ok |-> FALSE, msg |-> <<"cannot find tensor">> \o prefix \o <<g>>] :
        g \in {h \in {"embeddings", "encoder"} : (prefix \o <<h>>) \notin ckpt}}

WeightLoadingEnded == ld.active /\ ld.attempts # <<>> /\ pc \in {"loaded", "load_failed"}

FusedVariants == {"FlashBert", "FlashJinaBert"}

GenericVariants == {"Bert", "JinaBert"}

\* USE_FLASH_ATTENTION is unset, or set to "true" in any mix of cases.
OverrideAllows(env) ==
    \/ ~env.set
    \/ /\ Len(env.val) = 4
       /\ env.val[1] \in {"t", "T"}
       /\ env.val[2] \in {"r", "R"}
       /\ env.val[3] \in {"u", "U"}
       /\ env.val[4] \in {"e", "E"}

VariantSelected == inputs.present /\ selected # "none"

\* C9 as stated: a fused-attention variant is selected only if the device is
\* CUDA, the precision is float16, the position embeddings are absolute and the
\* override does not disable it; with the override set to anything but "true",
\* or on CPU/Metal, the variant selected is a generic one.
C9_FusedOnlyIfAbsolute ==
    VariantSelected =>
        /\ selected \in FusedVariants =>
              /\ SelectDevice(inputs) = "Cuda"
              /\ inputs.dtype = "float16"
              /\ inputs.position_embedding_type = "Absolute"
              /\ OverrideAllows(inputs.use_flash_attention)
        /\ (~OverrideAllows(inputs.use_flash_attention)
              \/ SelectDevice(inputs) \in {"Cpu", "Metal"}) =>
              selected \in GenericVariants

\* C9 (amended): a fused-attention variant is selected only if the device is
\* CUDA, the precision is float16, a flash-attention feature is compiled in and
\* the override does not disable it; the position embeddings only decide which
\* one: FlashBert for absolute, FlashJinaBert for ALiBi.  With the override set
\* to anything but "true", or on CPU/Metal, the variant selected is generic.
C9_FusedOnlyIfEligible ==
    VariantSelected =>
        /\ selected \in FusedVariants \cup GenericVariants
        /\ selected \in FusedVariants =>
              /\ SelectDevice(inputs) = "Cuda"
              /\ inputs.dtype = "float16"
              /\ inputs.features \cap {"flash-attn", "flash-attn-v1"} # {}
              /\ OverrideAllows(inputs.use_flash_attention)
        /\ selected = "FlashBert" => inputs.position_embedding_type = "Absolute"
        /\ selected = "FlashJinaBert" =>
              /\ inputs.position_embedding_type = "Alibi"
              /\ "flash-attn" \in inputs.features
        /\ (~OverrideAllows(inputs.use_flash_attention)
              \/ SelectDevice(inputs) \in {"Cpu", "Metal"}) =>
              selected \in GenericVariants

\* On CUDA with float16, absolute position embeddings and a flash-attention
\* feature, the override "False" has made new() select the generic Bert.
C9_Witness ==
    /\ VariantSelected
    /\ selected = "Bert"
    /\ SelectDevice(inputs) = "Cuda"
    /\ inputs.dtype = "float16"
    /\ inputs.position_embedding_type = "Absolute"
    /\ inputs.features \cap {"flash-attn", "flash-attn-v1"} # {}
    /\ inputs.use_flash_attention = EnvSet(<<"F", "a", "l", "s", "e">>)

\* C10: across any sequence of embed and predict calls, failed ones included,
\* the loaded variant, pooling strategy, classification head and is_padded()
\* stay those of the engine as constructed, and every call's outcome is the one
\* the engine as constructed gives for the same batch.
Outcome(m, c) ==
    IF c.op = "embed" THEN BackendEmbed(m, c.batch) ELSE BackendPredict(m, c.batch)

C10_NoStateAcrossCalls ==
    pc \in {"ready", "called", "returned", "panicked"} =>
        /\ model = built
        /\ IsPadded(model) = IsPadded(built)
        /\ pc \in {"returned", "panicked"} => result = Outcome(built, call)

\* An embed succeeds on an engine on which an earlier predict failed with an
\* inference error.
C10_Witness ==
    /\ pc = "returned"
    /\ "Err" \in seen
    /\ call.op = "embed"
    /\ result.kind = "Ok"
    /\ model.pool = "Mean"

\* C11: a loaded FlashBertModel has a classification head iff it was loaded
\* with ModelType::Classifier; with a head the pooling is CLS; with
\* ModelType::Embedding(pool) the pooling is the requested pool and there is no
\* head.  So every row predict hands to the head is a first-token row.
C11_HeadIffClassifierAndCls ==
    /\ pc = "loaded" =>
          /\ ld.classifier.some <=> inputs.model_type.kind = "Classifier"
          /\ ld.classifier.some => ld.pool = "Cls"
          /\ inputs.model_type.kind = "Embedding" =>
                /\ ld.pool = inputs.model_type.pool
                /\ ld.classifier = None
    /\ (pc \in {"ready", "called", "returned", "panicked"} /\ model.variant = "FlashBert") =>
          (model.classifier.some => model.pool = "Cls")
    /\ (PredictReturnedOk /\ PackedBatchInvariant(call.batch)) =>
          \A k \in DOMAIN result.predictions :
              \E i \in Requests(call.batch) :
                  result.predictions[k].input = EncoderRow(call.batch, StartOf(call.batch, i))

\* predict has returned predictions for a request of two tokens, whose mean
\* differs from its first-token row.
C11_Witness ==
    /\ PredictReturnedOk
    /\ model.classifier.some
    /\ model.pool = "Cls"
    /\ \E i \in Range(call.batch.pooled_indices) : LengthOf(call.batch, i) = 2

\* The batches whose raw buffer is the encoder output itself.
RawOnlyOrSingle(b) ==
    b.raw_indices # <<>> /\ (b.pooled_indices = <<>> \/ BatchLen(b) = 1)

\* C12: when raw_indices is non-empty and the batch has no pooled request or a
\* single request, forward hands back the encoder output unchanged, and embed's
\* walk over raw_indices, in whatever order it lists the requests, gives each
\* raw request i exactly the encoder rows cumulative_seq_lengths[i] ..
\* cumulative_seq_lengths[i+1]-1, the running offset ending at the token count.
C12_RawRowsWhenUngathered ==
    (/\ pc \in {"returned", "panicked"}
     /\ call.op = "embed"
     /\ PackedBatchInvariant(call.batch)
     /\ RawOnlyOrSingle(call.batch)) =>
        /\ Forward(model.pool, call.batch).raw = Some(EncoderForward(call.batch))
        /\ result.kind = "Ok"
        /\ \A i \in Range(call.batch.raw_indices) :
              /\ i \in DOMAIN result.embeddings
              /\ result.embeddings[i] = All(OwnRows(call.batch, i))
        /\ ReturnedRows(call.batch.raw_indices) = Len(call.batch.input_ids)

Ascending(s) == \A k \in 1..(Len(s) - 1) : s[k] < s[k + 1]

\* The part of C12 the code keeps: raw_indices listed in batch order.
C12_RawRowsWhenInBatchOrder ==
    (/\ pc \in {"returned", "panicked"}
     /\ call.op = "embed"
     /\ PackedBatchInvariant(call.batch)
     /\ RawOnlyOrSingle(call.batch)
     /\ Ascending(call.batch.raw_indices)) =>
        /\ Forward(model.pool, call.batch).raw = Some(EncoderForward(call.batch))
        /\ result.kind = "Ok"
        /\ \A i \in Range(call.batch.raw_indices) :
              /\ i \in DOMAIN result.embeddings
              /\ result.embeddings[i] = All(OwnRows(call.batch, i))
        /\ ReturnedRows(call.batch.raw_indices) = Len(call.batch.input_ids)

\* C13: on the single-request mean-pooling fast path, a batch whose max_length
\* differs from the request's own length makes embed fail instead of returning
\* a pooled vector, so that every pooled vector the fast path returns is the
\* sum of the request's rows divided by its own length.
C13_FastPathDividesByOwnLength ==
    (/\ pc \in {"returned", "panicked"}
     /\ call.op = "embed"
     /\ model.pool = "Mean"
     /\ PackedBatchInvariant(call.batch)
     /\ BatchLen(call.batch) = 1
     /\ call.batch.pooled_indices = <<0>>) =>
        /\ call.batch.max_length # LengthOf(call.batch, 0) => result.kind # "Ok"
        /\ result.kind = "Ok" =>
              result.embeddings[0] =
                  Pooled([num |-> ColumnSums(OwnRows(call.batch, 0)),
                          den |-> LengthOf(call.batch, 0)])

\* The part of C13 the code keeps: the divisor is right when max_length is the
\* request's own length.
C13_FastPathWhenMaxLengthIsOwnLength ==
    (/\ EmbedReturnedOk
     /\ model.pool = "Mean"
     /\ PackedBatchInvariant(call.batch)
     /\ BatchLen(call.batch) = 1
     /\ call.batch.pooled_indices = <<0>>
     /\ call.batch.max_length = LengthOf(call.batch, 0)) =>
        result.embeddings[0] =
            Pooled([num |-> ColumnSums(OwnRows(call.batch, 0)),
                    den |-> LengthOf(call.batch, 0)])

\* C14: on a model with a classification head, forward returns a pooled tensor
\* iff pooled_indices is non-empty; predict aborts with "pooled_embeddings is
\* empty. This is a bug." exactly for the batches without a pooled request, and
\* for a batch with a pooled request it returns predictions or an Inference
\* error.
C14_PredictAbortsIffNoPooled ==
    (/\ pc \in {"returned", "panicked"}
     /\ call.op = "predict"
     /\ model.classifier.some) =>
        /\ Forward(model.pool, call.batch).pooled.some <=> call.batch.pooled_indices # <<>>
        /\ pc = "panicked" <=> call.batch.pooled_indices = <<>>
        /\ pc = "panicked" =>
              result = [kind |-> "Panic", msg |-> "pooled_embeddings is empty. This is a bug."]
        /\ call.batch.pooled_indices # <<>> =>
              \/ result.kind = "Ok"
              \/ result.kind = "Err" /\ result.error.kind = "Inference"

\* predict has aborted on a batch of raw requests only.
C14_Witness ==
    /\ pc = "panicked"
    /\ call.op = "predict"
    /\ model.classifier.some
    /\ call.batch.pooled_indices = <<>>
    /\ Len(call.batch.raw_indices) >= 2

====
